---- MODULE Spec2Model ----
(***************************************************************************)
(* Model of witticism's audio capture controller (AudioCapture, with its   *)
(* capture loop and VAD segmentation state machine) and of its keyboard    *)
(* tracker (HotkeyManager).                                                *)
(*                                                                         *)
(* Durations are integers in milliseconds; the source holds them as float  *)
(* seconds (0.5 s = 500 ms) and compares them with >=.                     *)
(***************************************************************************)
EXTENDS Integers, Sequences, FiniteSets, TLC

\* ------------------------------------------------------------------ bounds
\* Frames the Frame Source delivers in one behaviour of the capture loop.
MaxFrames == 5
\* Capture threads (= successful start_recording calls) in one behaviour.
MaxThreads == 2
\* Frames delivered in one behaviour of the controller's life cycle.
MaxCtlFrames == 2
\* Key events the raw input source delivers in one behaviour.
MaxKeyEvents == 4
\* Frames delivered in one behaviour of a session with failing reads.
MaxErrFrames == 4
\* Frames delivered in one behaviour of a session of any frame duration.
MaxVadFrames == 3
\* Key events delivered in one behaviour of the tracker whose hold is watched.
MaxHoldEvents == 3
\* Key events delivered in one behaviour of the tracker configured by string.
MaxCfgKeyEvents == 2
\* Capture threads / frames in one behaviour of the push-to-talk variant.
MaxPttThreads == 2
MaxPttFrames == 2
\* The same when the inherited operations are called as well.
MaxMixThreads == 2
MaxMixFrames == 1

\* --------------------------------------------------------------- constants
\* chunk_duration_ms: int = 30, the constructor's default frame duration.
default_chunk_duration_ms == 30
\* speech_start_time = None
NoTime == -1
\* self.capture_thread.join(timeout=2.0), in ms
join_timeout_ms == 2000

\* Constructor arguments min_speech_duration / max_silence_duration the
\* model draws from, in ms (multiples of the frame duration).
MinSpeechChoices == {2 * default_chunk_duration_ms,
                     3 * default_chunk_duration_ms}
MaxSilenceChoices == {2 * default_chunk_duration_ms}
\* Constructor arguments chunk_duration_ms the model draws from.
ChunkDurationChoices == {default_chunk_duration_ms, 40}
\* The frame durations (ms) the webrtcvad classifier accepts; is_speech
\* raises for a frame of any other length.
SupportedFrameDurations == {10, 20, 30}

VARIABLES
  \* ---- AudioCapture object
  chunk_duration_ms,    \* self.chunk_duration_ms (ms)
  min_speech_duration,  \* self.min_speech_duration (ms)
  max_silence_duration, \* self.max_silence_duration (ms)
  is_recording,         \* self.is_recording
  stop_event,           \* self.stop_event (is_set())
  stream,               \* self.stream: 0 = None, n = the n-th stream opened
  recording_buffer,     \* self.recording_buffer: sequence of frames
  capture_thread,       \* self.capture_thread: 0 = None, else index in threads
  on_speech_start,      \* self.on_speech_start is set
  on_speech_end,        \* self.on_speech_end is set
  threads,              \* the capture threads ever started, with their locals
  \* ---- environment
  now,                  \* time.time(), ms
  join_started,         \* time.time() when the pending join was entered
  delivered,            \* history: every read that returned a frame, in order
  \* ---- the thread calling the public operations
  ctl,                  \* "idle"; "joining": inside stop_recording's join;
                        \* "cleanup_joining": the same, called by cleanup
  last,                 \* how the last public operation ended
  ret,                  \* what the last stop_recording returned
  sessionBase,          \* Len(delivered) when the current/last session began
  \* ---- observation
  emitted,              \* callbacks invoked by capture threads, in order
  errAt,                \* frames delivered before the latest failed read
  \* ---- PushToTalkCapture object (ptt_buffer is never but emptied)
  cap_ptt_active,       \* PushToTalkCapture.ptt_active
  \* ---- HotkeyManager object
  current_keys,         \* self.current_keys
  ptt_key,              \* self.ptt_key
  ptt_active,           \* self.ptt_active
  on_push_to_talk_start, \* self.on_push_to_talk_start is set
  on_push_to_talk_stop, \* self.on_push_to_talk_stop is set
  on_toggle,            \* self.on_toggle is set
  \* ---- observation of the key tracker
  signals,              \* callbacks invoked by the key handlers, in order
  nKeyEvents,           \* key events handled so far
  pttPresses,           \* presses of the PTT key since it was last released
  holdStarts,           \* start-signals since the PTT key was last released
  keyChanged,           \* change_ptt_key has been called
  \* ---- the callers of HotkeyManager that pass it a key string
  config_key,           \* the string HotkeyManager(...) was called with
  constructed,          \* HotkeyManager(...) returned an object
  update_result,        \* how the last update_hotkey_from_string call ended
  \* ---- observation of the push-to-talk hold
  activator             \* the held key whose press set ptt_active, if any

audioVars == << join_started, chunk_duration_ms, min_speech_duration,
                max_silence_duration, is_recording,
                stop_event, stream, recording_buffer, capture_thread,
                on_speech_start, on_speech_end, threads, now, delivered,
                ctl, last, ret, sessionBase, emitted >>

\* The fields of the AudioCapture object itself.
objVars == << chunk_duration_ms, min_speech_duration,
              max_silence_duration, is_recording,
              stop_event, stream, recording_buffer, capture_thread,
              on_speech_start, on_speech_end >>

keyVars == << current_keys, ptt_key, ptt_active, on_push_to_talk_start,
             on_push_to_talk_stop, on_toggle, signals, nKeyEvents,
             pttPresses, holdStarts, keyChanged >>

pttVars == << cap_ptt_active >>

errVars == << errAt >>

cfgVars == << config_key, constructed, update_result >>

holdVars == << activator >>

vars == << audioVars, keyVars, pttVars, errVars, cfgVars, holdVars >>

\* What the operations on the plain AudioCapture object leave alone, and what
\* those on the HotkeyManager object do.
notAudio == << keyVars, pttVars, errVars, cfgVars, holdVars >>
notKey == << audioVars, pttVars, errVars, cfgVars, holdVars >>

\* ------------------------------------------------------------------ frames
\* A frame is its sequence number in the delivered stream and its content,
\* of which only the VAD's verdict matters.
Frame(n, sp) == [n |-> n, sp |-> sp]

\* Mutant: the VAD's verdict is taken the wrong way round.
is_speech_frame_negated(chunk) == ~chunk.sp

\* self.vad.is_speech(audio_chunk, self.sample_rate)
is_speech_frame(chunk) == chunk.sp

\* silence_duration = silence_frames * self.chunk_duration_ms / 1000
silence_duration(silence_frames) == silence_frames * chunk_duration_ms

\* The locals of _capture_loop at its start, and the thread's position.
NewThread(callback) ==
  [ pc |-> "check",            \* "check" | "read" | "got" | "done"
    callback |-> callback,     \* a segment callback was passed
    speech_frames |-> << >>,
    silence_frames |-> 0,
    is_speech |-> FALSE,
    speech_start_time |-> NoTime,
    chunk |-> Frame(0, FALSE) ] \* audio_chunk, meaningful at pc = "got"

\* ------------------------------------------------------------ construction
\* AudioCapture.__init__(chunk_duration_ms = ms, ...), and the clock and the
\* observers at their start
AudioCaptureInit(ms) ==
  /\ chunk_duration_ms = ms
  /\ min_speech_duration \in MinSpeechChoices
  /\ max_silence_duration \in MaxSilenceChoices
  /\ is_recording = FALSE
  /\ stop_event = FALSE
  /\ stream = 0
  /\ recording_buffer = << >>
  /\ capture_thread = 0
  /\ on_speech_start = FALSE
  /\ on_speech_end = FALSE
  /\ threads = << >>
  /\ now = 0
  /\ delivered = << >>
  /\ ctl = "idle"
  /\ join_started = NoTime
  /\ last = "init"
  /\ ret = << >>
  /\ sessionBase = 0
  /\ emitted = << >>

\* No key is held, no read has failed.
NoKey == "<no key>"
ObserverInit == errAt = NoTime /\ activator = NoKey

\* AudioCapture(): the frame duration is the default
AudioInit == AudioCaptureInit(default_chunk_duration_ms)

\* HotkeyManager.__init__, and the observers at their start
KeyInit ==
  /\ current_keys = {}
  /\ ptt_key = "f9"
  /\ ptt_active = FALSE
  /\ on_push_to_talk_start = FALSE
  /\ on_push_to_talk_stop = FALSE
  /\ on_toggle = FALSE
  /\ signals = << >>
  /\ nKeyEvents = 0
  /\ pttPresses = 0
  /\ holdStarts = 0
  /\ keyChanged = FALSE

\* config_key when HotkeyManager() was called without a configuration, and
\* before HotkeyManager was called at all.
NoConfig == "<none>"
NotBuilt == "<not built>"

\* HotkeyManager() has returned the object KeyInit describes.
HotkeyManagerInit ==
  /\ KeyInit
  /\ config_key = NoConfig
  /\ constructed = TRUE
  /\ update_result = "none"

\* HotkeyManager(...) with the configuration entry c, or without (NoConfig).
\* __init__ takes no argument but self: HotkeyManager() returns the object,
\* HotkeyManager(config) raises TypeError and there is no object.
NewHotkeyManager(c) ==
  /\ config_key = NotBuilt
  /\ config_key' = c
  /\ constructed' = (c = NoConfig)
  /\ UNCHANGED << keyVars, update_result >>

\* PushToTalkCapture.__init__ after super().__init__
PttInit == cap_ptt_active = FALSE

Init == AudioInit /\ HotkeyManagerInit /\ PttInit /\ ObserverInit

\* AudioCapture(chunk_duration_ms = ms) for any of the durations drawn
VadInit ==
  /\ \E ms \in ChunkDurationChoices : AudioCaptureInit(ms)
  /\ HotkeyManagerInit /\ PttInit /\ ObserverInit

\* ------------------------------------------------------- public operations
\* "init" | "set_vad_callbacks" | "started" | "already_recording" |
\* "open_failed" (start_recording raised) | "stopped" | "stop_idle" (a
\* stop_recording outside a session) | "stop_again" (the same, directly after
\* another stop_recording)
Returned(how) == last' = how

\* set_vad_callbacks(on_speech_start, on_speech_end)
SetVadCallbacks(s, e) ==
  /\ ctl = "idle"
  /\ on_speech_start' = s
  /\ on_speech_end' = e
  /\ Returned("set_vad_callbacks")
  /\ UNCHANGED << join_started, chunk_duration_ms, min_speech_duration,
                  max_silence_duration, is_recording,
                  stop_event, stream, recording_buffer, capture_thread,
                  threads, now, delivered, ctl, ret, sessionBase, emitted >>

\* Mutant: start_recording without its "Already recording" early return.
StartRecording_Unguarded(callback, openOk) ==
  /\ ctl = "idle"
  /\ IF ~openOk
       THEN /\ Returned("open_failed")
            /\ UNCHANGED << is_recording, stop_event, stream,
                            recording_buffer, capture_thread, threads,
                            sessionBase >>
       ELSE /\ Returned(IF is_recording THEN "already_recording"
                                         ELSE "started")
            /\ stream' = Len(threads) + 1
            /\ is_recording' = TRUE
            /\ stop_event' = FALSE
            /\ recording_buffer' = << >>
            /\ threads' = Append(threads, NewThread(callback))
            /\ capture_thread' = Len(threads) + 1
            /\ sessionBase' = Len(delivered)
  /\ UNCHANGED << join_started, chunk_duration_ms, min_speech_duration,
                  max_silence_duration,
                  on_speech_start, on_speech_end, now, delivered, ctl, ret,
                  emitted >>

\* Mutant: is_recording is set before the stream is opened and stays set
\* when the open fails.
StartRecording_FlagBeforeOpen(callback, openOk) ==
  /\ ctl = "idle"
  /\ IF is_recording
       THEN /\ Returned("already_recording")
            /\ UNCHANGED << is_recording, stop_event, stream,
                            recording_buffer, capture_thread, threads,
                            sessionBase >>
       ELSE IF ~openOk
         THEN /\ Returned("open_failed")
              /\ is_recording' = TRUE
              /\ UNCHANGED << stop_event, stream, recording_buffer,
                              capture_thread, threads, sessionBase >>
         ELSE /\ Returned("started")
              /\ stream' = Len(threads) + 1
              /\ is_recording' = TRUE
              /\ stop_event' = FALSE
              /\ recording_buffer' = << >>
              /\ threads' = Append(threads, NewThread(callback))
              /\ capture_thread' = Len(threads) + 1
              /\ sessionBase' = Len(delivered)
  /\ UNCHANGED << join_started, chunk_duration_ms, min_speech_duration,
                  max_silence_duration,
                  on_speech_start, on_speech_end, now, delivered, ctl, ret,
                  emitted >>

\* start_recording(device_index, callback); openOk: self.audio.open succeeds.
StartRecording(callback, openOk) ==
  /\ ctl = "idle"
  /\ IF is_recording
       THEN \* "Already recording"
            /\ Returned("already_recording")
            /\ UNCHANGED << is_recording, stop_event, stream,
                            recording_buffer, capture_thread, threads,
                            sessionBase >>
       ELSE IF ~openOk
         THEN \* audio.open raised: logged and re-raised
              /\ Returned("open_failed")
              /\ UNCHANGED << is_recording, stop_event, stream,
                              recording_buffer, capture_thread, threads,
                              sessionBase >>
         ELSE /\ Returned("started")
              /\ stream' = Len(threads) + 1
              /\ is_recording' = TRUE
              /\ stop_event' = FALSE
              /\ recording_buffer' = << >>
              /\ threads' = Append(threads, NewThread(callback))
              /\ capture_thread' = Len(threads) + 1
              /\ sessionBase' = Len(delivered)
  /\ UNCHANGED << join_started, chunk_duration_ms, min_speech_duration,
                  max_silence_duration,
                  on_speech_start, on_speech_end, now, delivered, ctl, ret,
                  emitted >>

\* Mutant: stop_recording outside a session hands out the buffer again.
StopRecordingBegin_ReturnsBuffer ==
  /\ ctl = "idle"
  /\ IF ~is_recording
       THEN /\ ret' = recording_buffer
            /\ Returned(IF last \in {"stopped", "stop_idle", "stop_again"}
                          THEN "stop_again" ELSE "stop_idle")
            /\ UNCHANGED << stop_event, ctl, join_started >>
       ELSE /\ stop_event' = TRUE
            /\ ctl' = "joining"
            /\ join_started' = now
            /\ UNCHANGED << ret, last >>
  /\ UNCHANGED << chunk_duration_ms, min_speech_duration,
                  max_silence_duration, is_recording,
                  stream, recording_buffer, capture_thread, on_speech_start,
                  on_speech_end, threads, now, delivered, sessionBase,
                  emitted >>

\* stop_recording(), up to the join: the early return when not recording,
\* else stop_event.set() and the caller blocks in capture_thread.join(2.0),
\* entered at join_started.
StopRecordingBegin ==
  /\ ctl = "idle"
  /\ IF ~is_recording
       THEN /\ ret' = << >>
            /\ Returned(IF last \in {"stopped", "stop_idle", "stop_again"}
                          THEN "stop_again" ELSE "stop_idle")
            /\ UNCHANGED << stop_event, ctl, join_started >>
       ELSE /\ stop_event' = TRUE
            /\ ctl' = "joining"
            /\ join_started' = now
            /\ UNCHANGED << ret, last >>
  /\ UNCHANGED << chunk_duration_ms, min_speech_duration,
                  max_silence_duration, is_recording,
                  stream, recording_buffer, capture_thread, on_speech_start,
                  on_speech_end, threads, now, delivered, sessionBase,
                  emitted >>

\* The capture thread join() waits for has terminated.
Joined == capture_thread = 0 \/ threads[capture_thread].pc = "done"

\* time.time() when capture_thread.join(timeout=2.0) returns: at once when
\* the thread has exited, else when the timeout has run out since the join
\* was entered.
JoinReturnsAt(timedOut) ==
  IF timedOut /\ now < join_started + join_timeout_ms
    THEN join_started + join_timeout_ms
    ELSE now

\* Mutant: the join has no timeout, stop_recording goes on only once the
\* capture thread has exited.
StopRecordingEnd_JoinUnbounded(timedOut) ==
  /\ ctl = "joining"
  /\ ~timedOut
  /\ Joined
  /\ stream' = 0
  /\ is_recording' = FALSE
  /\ ret' = recording_buffer
  /\ ctl' = "idle"
  /\ now' = JoinReturnsAt(timedOut)
  /\ join_started' = NoTime
  /\ Returned("stopped")
  /\ UNCHANGED << chunk_duration_ms, min_speech_duration,
                  max_silence_duration, stop_event,
                  recording_buffer, capture_thread, on_speech_start,
                  on_speech_end, threads, delivered, sessionBase,
                  emitted >>

\* stop_recording(), from the return of join on: the thread has exited
\* (timedOut = FALSE) or the 2 s timeout elapsed first; the stream is closed,
\* the session is Idle and the concatenated buffer is returned.
StopRecordingEnd(timedOut) ==
  /\ ctl = "joining"
  /\ timedOut = ~Joined
  /\ stream' = 0
  /\ is_recording' = FALSE
  /\ ret' = recording_buffer
  /\ ctl' = "idle"
  /\ now' = JoinReturnsAt(timedOut)
  /\ join_started' = NoTime
  /\ Returned("stopped")
  /\ UNCHANGED << chunk_duration_ms, min_speech_duration,
                  max_silence_duration, stop_event,
                  recording_buffer, capture_thread, on_speech_start,
                  on_speech_end, threads, delivered, sessionBase,
                  emitted >>

\* cleanup(), up to the join inside the stop_recording() it calls: outside a
\* session stop_recording returns at once and audio.terminate() ends the
\* call; the value stop_recording returns is dropped.
\* Further outcome: "cleaned_up".
CleanupBegin ==
  /\ ctl = "idle"
  /\ IF ~is_recording
       THEN /\ Returned("cleaned_up")
            /\ UNCHANGED << stop_event, ctl, join_started >>
       ELSE /\ stop_event' = TRUE
            /\ ctl' = "cleanup_joining"
            /\ join_started' = now
            /\ UNCHANGED last
  /\ UNCHANGED << chunk_duration_ms, min_speech_duration,
                  max_silence_duration, is_recording, stream,
                  recording_buffer, capture_thread, on_speech_start,
                  on_speech_end, threads, now, delivered, ret, sessionBase,
                  emitted >>

\* cleanup(), from the return of the join on: the rest of stop_recording(),
\* then audio.terminate().
CleanupEnd(timedOut) ==
  /\ ctl = "cleanup_joining"
  /\ timedOut = ~Joined
  /\ stream' = 0
  /\ is_recording' = FALSE
  /\ ctl' = "idle"
  /\ now' = JoinReturnsAt(timedOut)
  /\ join_started' = NoTime
  /\ Returned("cleaned_up")
  /\ UNCHANGED << chunk_duration_ms, min_speech_duration,
                  max_silence_duration, stop_event,
                  recording_buffer, capture_thread, on_speech_start,
                  on_speech_end, threads, delivered, ret, sessionBase,
                  emitted >>

\* ------------------------------------------------- PushToTalkCapture
\* start_push_to_talk(device_index): the early return when active, else the
\* flag is set and start_recording is called without a segment callback.
\* Further outcomes: "ptt_already", "ptt_stop_idle".
StartPushToTalk(openOk) ==
  /\ ctl = "idle"
  /\ IF cap_ptt_active
       THEN /\ Returned("ptt_already")
            /\ UNCHANGED << objVars, threads, now, delivered, ctl, ret,
                            sessionBase, emitted, cap_ptt_active,
                            join_started >>
       ELSE /\ cap_ptt_active' = TRUE
            /\ StartRecording(FALSE, openOk)

\* stop_push_to_talk(), up to the join inside stop_recording: the early
\* return when not active, else the flag is cleared and stop_recording is
\* called, whose result is returned.
StopPushToTalkBegin ==
  /\ ctl = "idle"
  /\ IF ~cap_ptt_active
       THEN /\ ret' = << >>
            /\ Returned("ptt_stop_idle")
            /\ UNCHANGED << objVars, threads, now, delivered, ctl,
                            sessionBase, emitted, cap_ptt_active,
                            join_started >>
       ELSE /\ cap_ptt_active' = FALSE
            /\ StopRecordingBegin

\* ------------------------------------------------------------ capture loop
SetThread(t, r) == threads' = [threads EXCEPT ![t] = r]

\* while not self.stop_event.is_set(): ... if self.stream and
\* self.stream.is_active(): the thread exits, spins, or enters stream.read.
LoopCheck(t) ==
  /\ t \in 1..Len(threads)
  /\ threads[t].pc = "check"
  /\ IF stop_event
       THEN SetThread(t, [threads[t] EXCEPT !.pc = "done"])
       ELSE /\ stream # 0
            /\ SetThread(t, [threads[t] EXCEPT !.pc = "read"])
  /\ UNCHANGED << join_started, chunk_duration_ms, min_speech_duration,
                  max_silence_duration, is_recording,
                  stop_event, stream, recording_buffer, capture_thread,
                  on_speech_start, on_speech_end, now, delivered, ctl,
                  last, ret, sessionBase, emitted >>

\* self.stream.read(...) returns a frame. sp: what the VAD will say of it;
\* waited: the read blocked for one frame duration (else the frame was
\* already buffered by the device and the read returned at once).
ReadFrame(t, sp, waited) ==
  /\ t \in 1..Len(threads)
  /\ threads[t].pc = "read"
  /\ LET chunk == Frame(Len(delivered) + 1, sp) IN
       /\ delivered' = Append(delivered,
                               [f |-> chunk, by |-> t, waited |-> waited])
       /\ SetThread(t, [threads[t] EXCEPT !.pc = "got", !.chunk = chunk])
  /\ now' = IF waited THEN now + chunk_duration_ms ELSE now
  /\ UNCHANGED << join_started, chunk_duration_ms, min_speech_duration,
                  max_silence_duration, is_recording,
                  stop_event, stream, recording_buffer, capture_thread,
                  on_speech_start, on_speech_end, ctl, last, ret,
                  sessionBase, emitted >>

\* Mutant: a failed read ends the capture loop.
ReadError_EndsLoop(t) ==
  /\ t \in 1..Len(threads)
  /\ threads[t].pc = "read"
  /\ SetThread(t, [threads[t] EXCEPT !.pc = "done"])
  /\ UNCHANGED << join_started, chunk_duration_ms, min_speech_duration,
                  max_silence_duration, is_recording,
                  stop_event, stream, recording_buffer, capture_thread,
                  on_speech_start, on_speech_end, now, delivered, ctl,
                  last, ret, sessionBase, emitted >>

\* self.stream.read(...) raises: caught by the loop's except, logged.
ReadError(t) ==
  /\ t \in 1..Len(threads)
  /\ threads[t].pc = "read"
  /\ SetThread(t, [threads[t] EXCEPT !.pc = "check"])
  /\ UNCHANGED << join_started, chunk_duration_ms, min_speech_duration,
                  max_silence_duration, is_recording,
                  stop_event, stream, recording_buffer, capture_thread,
                  on_speech_start, on_speech_end, now, delivered, ctl,
                  last, ret, sessionBase, emitted >>

\* An invocation of a handler by thread t: of the segment callback with the
\* frames it is passed, of a notification with the frame being processed.
Event(kind, t, frames) == [kind |-> kind, th |-> t, frames |-> frames]

\* The end of speech has been decided for a thread with these locals:
\* silence_duration >= self.max_silence_duration
SilenceLongEnough(silence_frames) ==
  silence_duration(silence_frames) >= max_silence_duration

\* speech_duration = time.time() - speech_start_time
speech_duration(th) == now - th.speech_start_time

\* speech_duration >= self.min_speech_duration
ValidSegment(th) == speech_duration(th) >= min_speech_duration

\* The iteration for chunk c ends a speech run with a valid segment.
EndsValidSegment(th, c) ==
  /\ ~is_speech_frame(c)
  /\ th.is_speech
  /\ SilenceLongEnough(th.silence_frames + 1)
  /\ ValidSegment(th)

\* np.concatenate(speech_frames) raises ValueError on an empty list, before
\* the callback is reached.
ConcatenateRaises(th, c) ==
  EndsValidSegment(th, c) /\ th.callback /\ th.speech_frames = << >>

\* self.vad.is_speech(audio_chunk, self.sample_rate) raises: the chunk is
\* not of a length the classifier accepts.
VadRaises == chunk_duration_ms \notin SupportedFrameDurations

\* The handlers one loop iteration invokes for chunk c, in order, if none of
\* them raises.
Invoked(th, c) ==
  IF is_speech_frame(c)
    THEN IF ~th.is_speech /\ on_speech_start
           THEN << "speech_start" >> ELSE << >>
    ELSE IF EndsValidSegment(th, c) /\ ~ConcatenateRaises(th, c)
           THEN (IF th.callback THEN << "segment" >> ELSE << >>)
                \o (IF on_speech_end THEN << "speech_end" >> ELSE << >>)
           ELSE << >>

\* The locals after the iteration's speech branch, which ran to its end
\* (completed) or was left by an exception raised in on_speech_start.
AfterSpeechFrame(th, c, completed) ==
  LET started == IF th.is_speech THEN th
                 ELSE [th EXCEPT !.is_speech = TRUE,
                                 !.speech_start_time = now]
  IN IF completed
       THEN [started EXCEPT !.speech_frames = Append(@, c),
                            !.silence_frames = 0]
       ELSE started

\* The locals after the iteration's non-speech branch, which ran to its end
\* (completed) or was left by an exception before the reset.
AfterSilenceFrame(th, completed) ==
  IF ~th.is_speech THEN th
  ELSE LET counted == [th EXCEPT !.silence_frames = @ + 1] IN
       IF SilenceLongEnough(counted.silence_frames) /\ completed
         THEN [counted EXCEPT !.is_speech = FALSE,
                              !.speech_frames = << >>,
                              !.silence_frames = 0,
                              !.speech_start_time = NoTime]
         ELSE counted

\* The rest of one loop iteration after a successful read: the frame goes
\* to the recording buffer, the VAD classifies it and the segmentation
\* state machine advances. nraise = 0: no handler raises; nraise = k: the
\* k-th handler invoked raises. The loop's except catches what is raised,
\* also what the classifier raises before the state machine is reached.
ProcessFrame(t, nraise) ==
  /\ t \in 1..Len(threads)
  /\ threads[t].pc = "got"
  /\ LET th == threads[t]
         c == th.chunk
         inv == IF VadRaises THEN << >> ELSE Invoked(th, c)
         ncalled == IF nraise = 0 THEN Len(inv) ELSE nraise
         completed == nraise = 0 /\ ~ConcatenateRaises(th, c)
         after == IF VadRaises THEN th
                  ELSE IF is_speech_frame(c)
                    THEN AfterSpeechFrame(th, c, completed)
                    ELSE AfterSilenceFrame(th, completed)
     IN /\ nraise \in 0..Len(inv)
        /\ recording_buffer' = Append(recording_buffer, c)
        /\ emitted' = emitted \o
             [i \in 1..ncalled |->
                Event(inv[i], t,
                      IF inv[i] = "segment" THEN th.speech_frames
                                            ELSE << c >>)]
        /\ SetThread(t, [after EXCEPT !.pc = "check"])
  /\ UNCHANGED << join_started, chunk_duration_ms, min_speech_duration,
                  max_silence_duration, is_recording,
                  stop_event, stream, capture_thread, on_speech_start,
                  on_speech_end, now, delivered, ctl, last, ret,
                  sessionBase >>

\* ----------------------------------------------------------- key tracker
\* pynput keys the model draws events from: members of keyboard.Key (named
\* keys) and keyboard.KeyCode (characters).
NamedKeys == {"ctrl", "ctrl_l", "ctrl_r", "alt", "alt_l", "alt_r", "f9", "f10"}
CharKeys == {"m", "x"}
Keys == NamedKeys \cup CharKeys
\* Keys change_ptt_key is called with.
PttKeyChoices == {"f9", "f10"}

\* [keyboard.Key.ctrl, keyboard.Key.ctrl_l, keyboard.Key.ctrl_r]
CtrlVariants == {"ctrl", "ctrl_l", "ctrl_r"}
\* [keyboard.Key.alt, keyboard.Key.alt_l, keyboard.Key.alt_r]
AltVariants == {"alt", "alt_l", "alt_r"}

\* The toggle combination _on_key_press asks for:
\* (keyboard.Key.ctrl_l, keyboard.Key.alt_l, keyboard.KeyCode.from_char('m'))
ToggleCombo == << "ctrl_l", "alt_l", "m" >>

\* Mutant: only control keys are matched by role, alt keys literally.
KeyMissing_AltLiteral(key, held) ==
  IF key \in NamedKeys
    THEN IF key \in {"ctrl", "ctrl_l", "ctrl_r"}
           THEN ~(\E k \in {"ctrl", "ctrl_l", "ctrl_r"} : k \in held)
           ELSE key \notin held
    ELSE key \notin held

\* One round of the loop of _is_combo_pressed: is this key of the
\* combination missing from the held keys?
KeyMissing(key, held) ==
  IF key \in NamedKeys
    THEN IF key \in CtrlVariants
           THEN ~(\E k \in CtrlVariants : k \in held)
           ELSE IF key \in AltVariants
             THEN ~(\E k \in AltVariants : k \in held)
             ELSE key \notin held
    ELSE key \notin held

\* _is_combo_pressed(*keys) against the held keys
RECURSIVE is_combo_pressed(_, _)
is_combo_pressed(keys, held) ==
  IF keys = << >> THEN TRUE
  ELSE IF KeyMissing(Head(keys), held) THEN FALSE
  ELSE is_combo_pressed(Tail(keys), held)

\* set_callbacks(on_push_to_talk_start, on_push_to_talk_stop, on_toggle)
SetCallbacks(a, b, c) ==
  /\ on_push_to_talk_start' = a
  /\ on_push_to_talk_stop' = b
  /\ on_toggle' = c
  /\ UNCHANGED << current_keys, ptt_key, ptt_active, signals, nKeyEvents,
                  pttPresses, holdStarts, keyChanged >>

\* change_ptt_key(key)
ChangePttKey(key) ==
  /\ ptt_key' = key
  /\ keyChanged' = TRUE
  /\ pttPresses' = 0
  /\ holdStarts' = 0
  /\ UNCHANGED << current_keys, ptt_active, on_push_to_talk_start,
                  on_push_to_talk_stop, on_toggle, signals, nKeyEvents >>

\* manager.update_hotkey_from_string(str): HotkeyManager defines no such
\* method, the call raises AttributeError and leaves the object as it was.
UpdateHotkeyFromString(str) ==
  /\ constructed
  /\ update_result' = "raised"
  /\ UNCHANGED << keyVars, config_key, constructed >>

\* Mutant: every press of the PTT key starts push-to-talk, active or not.
OnKeyPress_LevelTriggered(key, raises) ==
  LET edge == key = ptt_key
      pttCalled == edge /\ on_push_to_talk_start
      pttRaised == pttCalled /\ raises = "ptt"
      held == IF pttRaised THEN current_keys ELSE current_keys \cup {key}
      toggleCalled == /\ ~pttRaised
                      /\ is_combo_pressed(ToggleCombo, held)
                      /\ on_toggle
  IN /\ raises = "ptt" => pttCalled
     /\ raises = "toggle" => toggleCalled
     /\ ptt_active' = (ptt_active \/ edge)
     /\ current_keys' = held
     /\ signals' = signals
                   \o (IF pttCalled THEN << "start" >> ELSE << >>)
                   \o (IF toggleCalled THEN << "toggle" >> ELSE << >>)
     /\ nKeyEvents' = nKeyEvents + 1
     /\ pttPresses' = IF key = ptt_key THEN pttPresses + 1 ELSE pttPresses
     /\ holdStarts' = IF pttCalled THEN holdStarts + 1 ELSE holdStarts
     /\ UNCHANGED << ptt_key, on_push_to_talk_start, on_push_to_talk_stop,
                     on_toggle, keyChanged >>

\* _on_key_press(key). raises: the handler that raises in this call, "none",
\* "ptt" (on_push_to_talk_start) or "toggle" (on_toggle); the handler's
\* except clause logs the exception and the call returns.
OnKeyPress(key, raises) ==
  LET edge == key = ptt_key /\ ~ptt_active
      pttCalled == edge /\ on_push_to_talk_start
      pttRaised == pttCalled /\ raises = "ptt"
      held == IF pttRaised THEN current_keys ELSE current_keys \cup {key}
      toggleCalled == /\ ~pttRaised
                      /\ is_combo_pressed(ToggleCombo, held)
                      /\ on_toggle
  IN /\ raises = "ptt" => pttCalled
     /\ raises = "toggle" => toggleCalled
     /\ ptt_active' = (ptt_active \/ edge)
     /\ current_keys' = held
     /\ signals' = signals
                   \o (IF pttCalled THEN << "start" >> ELSE << >>)
                   \o (IF toggleCalled THEN << "toggle" >> ELSE << >>)
     /\ nKeyEvents' = nKeyEvents + 1
     /\ pttPresses' = IF key = ptt_key THEN pttPresses + 1 ELSE pttPresses
     /\ holdStarts' = IF pttCalled THEN holdStarts + 1 ELSE holdStarts
     /\ UNCHANGED << ptt_key, on_push_to_talk_start, on_push_to_talk_stop,
                     on_toggle, keyChanged >>

\* Mutant: every release of the PTT key stops push-to-talk, active or not.
OnKeyRelease_LevelTriggered(key, raises) ==
  LET edge == key = ptt_key
      pttCalled == edge /\ on_push_to_talk_stop
  IN /\ raises => pttCalled
     /\ ptt_active' = (ptt_active /\ ~edge)
     /\ current_keys' = IF raises THEN current_keys ELSE current_keys \ {key}
     /\ signals' = signals \o (IF pttCalled THEN << "stop" >> ELSE << >>)
     /\ nKeyEvents' = nKeyEvents + 1
     /\ pttPresses' = IF key = ptt_key THEN 0 ELSE pttPresses
     /\ holdStarts' = IF key = ptt_key THEN 0 ELSE holdStarts
     /\ UNCHANGED << ptt_key, on_push_to_talk_start, on_push_to_talk_stop,
                     on_toggle, keyChanged >>

\* _on_key_release(key). raises: on_push_to_talk_stop raises in this call.
OnKeyRelease(key, raises) ==
  LET edge == key = ptt_key /\ ptt_active
      pttCalled == edge /\ on_push_to_talk_stop
  IN /\ raises => pttCalled
     /\ ptt_active' = (ptt_active /\ ~edge)
     /\ current_keys' = IF raises THEN current_keys ELSE current_keys \ {key}
     /\ signals' = signals \o (IF pttCalled THEN << "stop" >> ELSE << >>)
     /\ nKeyEvents' = nKeyEvents + 1
     /\ pttPresses' = IF key = ptt_key THEN 0 ELSE pttPresses
     /\ holdStarts' = IF key = ptt_key THEN 0 ELSE holdStarts
     /\ UNCHANGED << ptt_key, on_push_to_talk_start, on_push_to_talk_stop,
                     on_toggle, keyChanged >>

\* --------------------------------------------------------- specifications
\* The capture loop of one session: frames of either class arrive on time or
\* from the device's backlog, handlers are installed before the session and
\* may raise, reads may fail, the session may be stopped, by stop_recording
\* or by cleanup.
LoopSetVad ==
  \E s, e \in BOOLEAN :
     threads = << >> /\ SetVadCallbacks(s, e) /\ UNCHANGED notAudio
LoopStart ==
  \E cb, ok \in BOOLEAN :
     threads = << >> /\ StartRecording(cb, ok) /\ UNCHANGED notAudio
LoopStopBegin == StopRecordingBegin /\ UNCHANGED notAudio
LoopStopEnd ==
  \E timedOut \in BOOLEAN : StopRecordingEnd(timedOut) /\ UNCHANGED notAudio
LoopCleanupBegin == CleanupBegin /\ UNCHANGED notAudio
LoopCleanupEnd ==
  \E timedOut \in BOOLEAN : CleanupEnd(timedOut) /\ UNCHANGED notAudio
LoopCheckStep == \E t \in 1..Len(threads) : LoopCheck(t) /\ UNCHANGED notAudio
LoopRead ==
  \E t \in 1..Len(threads), sp, w \in BOOLEAN :
     Len(delivered) < MaxFrames /\ ReadFrame(t, sp, w) /\ UNCHANGED notAudio
LoopReadError == \E t \in 1..Len(threads) : ReadError(t) /\ UNCHANGED notAudio
LoopProcess ==
  \E t \in 1..Len(threads), k \in 0..2 :
     ProcessFrame(t, k) /\ UNCHANGED notAudio

Next ==
  \/ LoopSetVad
  \/ LoopStart
  \/ LoopStopBegin
  \/ LoopStopEnd
  \/ LoopCleanupBegin
  \/ LoopCleanupEnd
  \/ LoopCheckStep
  \/ LoopRead
  \/ LoopReadError
  \/ LoopProcess

Spec == Init /\ [][Next]_vars

\* The controller's life cycle: sessions are started and stopped in any
\* order, joins may time out and leave earlier capture threads alive; every
\* read that returns a frame took one frame duration.
CtlStart ==
  \E cb, ok \in BOOLEAN :
     Len(threads) < MaxThreads /\ StartRecording(cb, ok) /\ UNCHANGED notAudio
CtlStopBegin == StopRecordingBegin /\ UNCHANGED notAudio
CtlStopEnd ==
  \E timedOut \in BOOLEAN : StopRecordingEnd(timedOut) /\ UNCHANGED notAudio
CtlCheckStep == \E t \in 1..Len(threads) : LoopCheck(t) /\ UNCHANGED notAudio
CtlRead ==
  \E t \in 1..Len(threads), sp \in BOOLEAN :
     Len(delivered) < MaxCtlFrames /\ ReadFrame(t, sp, TRUE)
     /\ UNCHANGED notAudio
CtlReadError == \E t \in 1..Len(threads) : ReadError(t) /\ UNCHANGED notAudio
CtlProcess ==
  \E t \in 1..Len(threads) : ProcessFrame(t, 0) /\ UNCHANGED notAudio

CtlNext ==
  \/ CtlStart
  \/ CtlStopBegin
  \/ CtlStopEnd
  \/ CtlCheckStep
  \/ CtlRead
  \/ CtlReadError
  \/ CtlProcess

CtlSpec == Init /\ [][CtlNext]_vars

\* The same with the one progress guarantee the code gives: join(timeout=2.0)
\* returns, the thread exited or not, and the rest of stop_recording runs.
\* Nothing is assumed of the capture threads, which may block in a read for
\* ever.
CtlLiveSpec == CtlSpec /\ WF_vars(CtlStopEnd)

\* The key tracker: callbacks are installed before the listener delivers
\* events; any key may then be pressed or released in any order, handlers may
\* raise, and the PTT key may be replaced at any time.
KeySetCallbacks ==
  \E a, b, c \in BOOLEAN :
     nKeyEvents = 0 /\ SetCallbacks(a, b, c) /\ UNCHANGED notKey
KeyChangePtt ==
  \E k \in PttKeyChoices : ChangePttKey(k) /\ UNCHANGED notKey
KeyPress ==
  \E k \in Keys, r \in {"none", "ptt", "toggle"} :
     nKeyEvents < MaxKeyEvents /\ OnKeyPress(k, r) /\ UNCHANGED notKey
KeyRelease ==
  \E k \in Keys, r \in BOOLEAN :
     nKeyEvents < MaxKeyEvents /\ OnKeyRelease(k, r) /\ UNCHANGED notKey

KeyNext ==
  \/ KeySetCallbacks
  \/ KeyChangePtt
  \/ KeyPress
  \/ KeyRelease

KeySpec == Init /\ [][KeyNext]_vars

\* The key tracker as in KeySpec, with the key whose press set ptt_active
\* remembered for as long as it is held.
notHold == << audioVars, pttVars, errVars, cfgVars >>

HoldSetCallbacks ==
  \E a, b, c \in BOOLEAN :
     nKeyEvents = 0 /\ SetCallbacks(a, b, c) /\ UNCHANGED notKey
HoldChangePtt ==
  \E k \in PttKeyChoices : ChangePttKey(k) /\ UNCHANGED notKey
HoldPress ==
  \E k \in Keys, r \in {"none", "ptt", "toggle"} :
     /\ nKeyEvents < MaxHoldEvents
     /\ OnKeyPress(k, r)
     /\ activator' = IF k = ptt_key /\ ~ptt_active THEN k ELSE activator
     /\ UNCHANGED notHold
HoldRelease ==
  \E k \in Keys, r \in BOOLEAN :
     /\ nKeyEvents < MaxHoldEvents
     /\ OnKeyRelease(k, r)
     /\ activator' = IF k = activator THEN NoKey ELSE activator
     /\ UNCHANGED notHold

KeyHoldNext ==
  \/ HoldSetCallbacks
  \/ HoldChangePtt
  \/ HoldPress
  \/ HoldRelease

KeyHoldSpec == Init /\ [][KeyHoldNext]_vars

\* The key tracker with the callers that give it its PTT key as a string:
\* the configuration entry hotkeys.push_to_talk at construction, and the
\* update operation at run time, between key events.
HotkeyStrings == {"f10", "F10", "Space", "x", "InvalidKey123"}

\* No tracker has been built yet.
KeyCfgInit ==
  /\ AudioInit /\ PttInit /\ ObserverInit
  /\ KeyInit
  /\ config_key = NotBuilt
  /\ constructed = FALSE
  /\ update_result = "none"

CfgNew ==
  \E c \in HotkeyStrings \cup {NoConfig} :
     NewHotkeyManager(c)
     /\ UNCHANGED << audioVars, pttVars, errVars, holdVars >>

CfgSetCallbacks ==
  \E a, b, c \in BOOLEAN :
     constructed /\ nKeyEvents = 0 /\ SetCallbacks(a, b, c)
     /\ UNCHANGED notKey
CfgUpdate ==
  \E str \in HotkeyStrings :
     UpdateHotkeyFromString(str)
     /\ UNCHANGED << audioVars, pttVars, errVars, holdVars >>
CfgChangePtt ==
  \E k \in PttKeyChoices : constructed /\ ChangePttKey(k) /\ UNCHANGED notKey
CfgPress ==
  \E k \in Keys :
     constructed /\ nKeyEvents < MaxCfgKeyEvents /\ OnKeyPress(k, "none")
     /\ UNCHANGED notKey
CfgRelease ==
  \E k \in Keys :
     constructed /\ nKeyEvents < MaxCfgKeyEvents /\ OnKeyRelease(k, FALSE)
     /\ UNCHANGED notKey

KeyCfgNext ==
  \/ CfgNew
  \/ CfgSetCallbacks
  \/ CfgUpdate
  \/ CfgChangePtt
  \/ CfgPress
  \/ CfgRelease

KeyCfgSpec == KeyCfgInit /\ [][KeyCfgNext]_vars

\* The push-to-talk variant driven through its own two operations: begin and
\* end in any order, the device may fail to open, joins may time out; every
\* read that returns a frame took one frame duration.
notPtt == << keyVars, errVars, cfgVars, holdVars >>

PttStart ==
  \E ok \in BOOLEAN :
     Len(threads) < MaxPttThreads /\ StartPushToTalk(ok) /\ UNCHANGED notPtt
PttStopBegin == StopPushToTalkBegin /\ UNCHANGED notPtt
PttStopEnd ==
  \E timedOut \in BOOLEAN : StopRecordingEnd(timedOut) /\ UNCHANGED notAudio
PttCheckStep == \E t \in 1..Len(threads) : LoopCheck(t) /\ UNCHANGED notAudio
PttRead ==
  \E t \in 1..Len(threads), sp \in BOOLEAN :
     Len(delivered) < MaxPttFrames /\ ReadFrame(t, sp, TRUE)
     /\ UNCHANGED notAudio
PttReadError == \E t \in 1..Len(threads) : ReadError(t) /\ UNCHANGED notAudio
PttProcess ==
  \E t \in 1..Len(threads) : ProcessFrame(t, 0) /\ UNCHANGED notAudio

PttNext ==
  \/ PttStart
  \/ PttStopBegin
  \/ PttStopEnd
  \/ PttCheckStep
  \/ PttRead
  \/ PttReadError
  \/ PttProcess

PttSpec == Init /\ [][PttNext]_vars

\* The push-to-talk variant driven through its own operations and through
\* the start_recording, stop_recording and cleanup it inherits, in any
\* order; audio.open after audio.terminate is left to succeed or raise.
MixPttStart ==
  \E ok \in BOOLEAN :
     Len(threads) < MaxMixThreads /\ StartPushToTalk(ok) /\ UNCHANGED notPtt
MixPttStopBegin == StopPushToTalkBegin /\ UNCHANGED notPtt
MixStart ==
  \E cb, ok \in BOOLEAN :
     Len(threads) < MaxMixThreads /\ StartRecording(cb, ok)
     /\ UNCHANGED notAudio
MixStopBegin == StopRecordingBegin /\ UNCHANGED notAudio
MixStopEnd ==
  \E timedOut \in BOOLEAN : StopRecordingEnd(timedOut) /\ UNCHANGED notAudio
MixCleanupBegin == CleanupBegin /\ UNCHANGED notAudio
MixCleanupEnd ==
  \E timedOut \in BOOLEAN : CleanupEnd(timedOut) /\ UNCHANGED notAudio
MixCheckStep == \E t \in 1..Len(threads) : LoopCheck(t) /\ UNCHANGED notAudio
MixRead ==
  \E t \in 1..Len(threads), sp \in BOOLEAN :
     Len(delivered) < MaxMixFrames /\ ReadFrame(t, sp, TRUE)
     /\ UNCHANGED notAudio
MixReadError == \E t \in 1..Len(threads) : ReadError(t) /\ UNCHANGED notAudio
MixProcess ==
  \E t \in 1..Len(threads) : ProcessFrame(t, 0) /\ UNCHANGED notAudio

PttMixNext ==
  \/ MixPttStart
  \/ MixPttStopBegin
  \/ MixStart
  \/ MixStopBegin
  \/ MixStopEnd
  \/ MixCleanupBegin
  \/ MixCleanupEnd
  \/ MixCheckStep
  \/ MixRead
  \/ MixReadError
  \/ MixProcess

PttMixSpec == Init /\ [][PttMixNext]_vars

\* One session whose reads may fail: frames of either class arrive on time,
\* no handler raises; errAt remembers where the latest failure fell.
ErrSetVad ==
  \E s, e \in BOOLEAN :
     threads = << >> /\ SetVadCallbacks(s, e) /\ UNCHANGED notAudio
ErrStart ==
  \E cb, ok \in BOOLEAN :
     threads = << >> /\ StartRecording(cb, ok) /\ UNCHANGED notAudio
ErrStopBegin == StopRecordingBegin /\ UNCHANGED notAudio
ErrStopEnd ==
  \E timedOut \in BOOLEAN : StopRecordingEnd(timedOut) /\ UNCHANGED notAudio
ErrCheckStep == \E t \in 1..Len(threads) : LoopCheck(t) /\ UNCHANGED notAudio
ErrRead ==
  \E t \in 1..Len(threads), sp \in BOOLEAN :
     Len(delivered) < MaxErrFrames /\ ReadFrame(t, sp, TRUE)
     /\ UNCHANGED notAudio
ErrReadError ==
  \E t \in 1..Len(threads) :
     /\ ReadError(t)
     /\ errAt' = Len(delivered)
     /\ UNCHANGED << keyVars, pttVars, cfgVars, holdVars >>
ErrProcess ==
  \E t \in 1..Len(threads) : ProcessFrame(t, 0) /\ UNCHANGED notAudio

ErrNext ==
  \/ ErrSetVad
  \/ ErrStart
  \/ ErrStopBegin
  \/ ErrStopEnd
  \/ ErrCheckStep
  \/ ErrRead
  \/ ErrReadError
  \/ ErrProcess

ErrSpec == Init /\ [][ErrNext]_vars

\* One session of a capture object built with any of the frame durations
\* drawn, supported by the classifier or not.
VadSetVad ==
  \E s, e \in BOOLEAN :
     threads = << >> /\ SetVadCallbacks(s, e) /\ UNCHANGED notAudio
VadStart ==
  \E cb, ok \in BOOLEAN :
     threads = << >> /\ StartRecording(cb, ok) /\ UNCHANGED notAudio
VadStopBegin == StopRecordingBegin /\ UNCHANGED notAudio
VadStopEnd ==
  \E timedOut \in BOOLEAN : StopRecordingEnd(timedOut) /\ UNCHANGED notAudio
VadCheckStep == \E t \in 1..Len(threads) : LoopCheck(t) /\ UNCHANGED notAudio
VadRead ==
  \E t \in 1..Len(threads), sp \in BOOLEAN :
     Len(delivered) < MaxVadFrames /\ ReadFrame(t, sp, TRUE)
     /\ UNCHANGED notAudio
VadReadError == \E t \in 1..Len(threads) : ReadError(t) /\ UNCHANGED notAudio
VadProcess ==
  \E t \in 1..Len(threads) : ProcessFrame(t, 0) /\ UNCHANGED notAudio

VadNext ==
  \/ VadSetVad
  \/ VadStart
  \/ VadStopBegin
  \/ VadStopEnd
  \/ VadCheckStep
  \/ VadRead
  \/ VadReadError
  \/ VadProcess

VadSpec == VadInit /\ [][VadNext]_vars

\* ------------------------------------------------------------------ claims
\* What one capture loop has processed so far: the reads of thread t that
\* returned a frame, without the frame it still holds unprocessed.
ReadBy(t) == SelectSeq(delivered, LAMBDA d : d.by = t)
Seen(t) ==
  IF threads[t].pc = "got" THEN SubSeq(ReadBy(t), 1, Len(ReadBy(t)) - 1)
  ELSE ReadBy(t)

\* The least number of frames that last at least max_silence_duration.
SilenceFramesNeeded ==
  (max_silence_duration + chunk_duration_ms - 1) \div chunk_duration_ms

\* S[i..j] is a maximal run of speech frames.
IsSpeechRun(S, i, j) ==
  /\ i <= j
  /\ \A k \in i..j : S[k].f.sp
  /\ i = 1 \/ ~S[i - 1].f.sp
  /\ j = Len(S) \/ ~S[j + 1].f.sp

\* Nothing but silence precedes S[i], or at least max_silence_duration of it.
SilenceBefore(S, i) ==
  \/ \A k \in 1..(i - 1) : ~S[k].f.sp
  \/ /\ i > SilenceFramesNeeded
     /\ \A k \in (i - SilenceFramesNeeded)..(i - 1) : ~S[k].f.sp

\* At least max_silence_duration of silence follows S[j].
SilenceAfter(S, j) ==
  /\ j + SilenceFramesNeeded <= Len(S)
  /\ \A k \in (j + 1)..(j + SilenceFramesNeeded) : ~S[k].f.sp

\* From S[i] to the frame that ends the silence after S[j], the clock
\* advanced by one frame duration per frame.
OnTime(S, i, j) == \A k \in (i + 1)..(j + SilenceFramesNeeded) : S[k].waited

RunFrames(S, i, j) == [k \in 1..(j - i + 1) |-> S[i + k - 1].f]

\* The Segments thread t was made to emit that hold a frame of S[i..j].
SegmentsOf(t, S, i, j) ==
  { e \in DOMAIN emitted :
      /\ emitted[e].kind = "segment"
      /\ emitted[e].th = t
      /\ \E k \in i..j, m \in DOMAIN emitted[e].frames :
            emitted[e].frames[m] = S[k].f }

\* S[i..j] is a speech run the loop of thread t met in state Silence and
\* that was followed by enough silence, all on time.
CompletedRun(t, S, i, j) ==
  /\ IsSpeechRun(S, i, j)
  /\ SilenceBefore(S, i)
  /\ SilenceAfter(S, j)
  /\ OnTime(S, i, j)

\* C1: with a segment callback, a speech run of at least
\* min_speech_duration followed by max_silence_duration of silence, on time,
\* makes the loop emit exactly one Segment, made of exactly the run's frames.
C1_OneSegmentPerRun ==
  \A t \in DOMAIN threads :
    LET S == Seen(t) IN
      \A i, j \in DOMAIN S :
        ( /\ threads[t].callback
          /\ CompletedRun(t, S, i, j)
          /\ (j - i + 1) * chunk_duration_ms >= min_speech_duration )
        => /\ Cardinality(SegmentsOf(t, S, i, j)) = 1
           /\ \A e \in SegmentsOf(t, S, i, j) :
                 emitted[e].frames = RunFrames(S, i, j)

\* C2: a speech run shorter than min_speech_duration followed by
\* max_silence_duration of silence, on time, yields no Segment; the pending
\* buffer is dropped and the loop is back in Silence.
C2_ShortRunDiscarded ==
  \A t \in DOMAIN threads :
    LET S == Seen(t) IN
      \A i, j \in DOMAIN S :
        ( /\ CompletedRun(t, S, i, j)
          /\ (j - i + 1) * chunk_duration_ms < min_speech_duration )
        => /\ SegmentsOf(t, S, i, j) = {}
           /\ Len(S) = j + SilenceFramesNeeded
                => /\ ~threads[t].is_speech
                   /\ threads[t].speech_frames = << >>

\* No frame delivered so far is speech.
NoSpeechDelivered == \A k \in DOMAIN delivered : ~delivered[k].f.sp

\* C3: as long as no delivered frame is speech, no segment callback and no
\* speech-start or speech-end handler has been invoked, and every capture
\* loop is in Silence with nothing pending.
C3_SilenceEmitsNothing ==
  NoSpeechDelivered =>
    /\ emitted = << >>
    /\ \A t \in DOMAIN threads :
          /\ ~threads[t].is_speech
          /\ threads[t].speech_frames = << >>
          /\ threads[t].silence_frames = 0

\* C3 witness: a loop with all three handlers installed has processed three
\* frames, none of them speech.
C3_Witness ==
  /\ NoSpeechDelivered
  /\ on_speech_start /\ on_speech_end
  /\ \E t \in DOMAIN threads :
        threads[t].callback /\ Len(Seen(t)) >= 3

\* The frames the Frame Source has delivered since the session began.
SessionFrames ==
  [k \in 1..(Len(delivered) - sessionBase) |-> delivered[sessionBase + k].f]

\* C4: once stop_recording has ended a session, the buffer it returned holds
\* exactly the frames the Frame Source delivered in that session, speech or
\* not, in arrival order.
C4_BufferHoldsSession == last = "stopped" => ret = SessionFrames

StopOutcomes == {"stopped", "stop_idle", "stop_again"}

\* C5: stop_recording outside a session returns an empty buffer and changes
\* nothing, so the second of two consecutive calls returns an empty buffer;
\* the call that ends a session returns the recorded buffer; after every
\* stop_recording the session state is Idle.
C5_StopAlwaysSafe ==
  /\ [](last \in StopOutcomes => ~is_recording)
  /\ [](last \in {"stop_idle", "stop_again"} => ret = << >>)
  /\ [][(StopRecordingBegin /\ ~is_recording)
          => UNCHANGED << objVars, threads, emitted >>]_vars
  /\ [][\A timedOut \in BOOLEAN :
          StopRecordingEnd(timedOut) => ret' = recording_buffer]_vars

\* C5 witness: a session recorded frames, and the second of two consecutive
\* stop_recording calls has returned an empty buffer.
C5_Witness ==
  /\ last = "stop_again"
  /\ ret = << >>
  /\ recording_buffer # << >>

\* ------------------------------------------------------- key tracker claims
RECURSIVE Count(_, _)
Count(seq, x) ==
  IF seq = << >> THEN 0
  ELSE (IF Head(seq) = x THEN 1 ELSE 0) + Count(Tail(seq), x)

\* The start- and stop-signals emitted so far, in order.
PttSignals == SelectSeq(signals, LAMBDA x : x # "toggle")

\* C6: a press of the PTT key while ptt_active is set emits no start-signal,
\* so a hold of N presses without a release never yields more than one
\* start-signal, and yields exactly one when its first press found
\* ptt_active clear and a start handler is installed.
C6_OneStartPerHold ==
  /\ [][\A k \in Keys, r \in {"none", "ptt", "toggle"} :
          (OnKeyPress(k, r) /\ k = ptt_key /\ ptt_active)
            => Count(signals', "start") = Count(signals, "start")]_vars
  /\ [][\A k \in Keys, r \in {"none", "ptt", "toggle"} :
          (OnKeyPress(k, r) /\ k = ptt_key /\ ~ptt_active
             /\ on_push_to_talk_start)
            => /\ Count(signals', "start") = Count(signals, "start") + 1
               /\ ptt_active']_vars
  /\ [](holdStarts <= 1)
  /\ []((pttPresses >= 1 /\ on_push_to_talk_start /\ ~keyChanged)
          => holdStarts = 1)

\* C6 witness: the PTT key has been pressed three times without a release
\* and one start-signal was emitted.
C6_Witness ==
  /\ pttPresses >= 3
  /\ holdStarts = 1
  /\ ~keyChanged

\* C7: with a fixed PTT key, start- and stop-signals alternate beginning
\* with a start-signal; a stop-signal is emitted only by a release of the PTT
\* key that finds ptt_active set, one per press/release pair, and any other
\* release emits nothing.
C7_StartStopAlternate ==
  /\ []((~keyChanged /\ on_push_to_talk_start /\ on_push_to_talk_stop)
          => /\ \A i \in DOMAIN PttSignals :
                   PttSignals[i] = IF i % 2 = 1 THEN "start" ELSE "stop"
             /\ ptt_active <=> (Len(PttSignals) % 2 = 1))
  /\ [][\A k \in Keys, r \in BOOLEAN :
          (OnKeyRelease(k, r) /\ ~(k = ptt_key /\ ptt_active))
            => signals' = signals]_vars
  /\ [][\A k \in Keys, r \in BOOLEAN :
          (OnKeyRelease(k, r) /\ k = ptt_key /\ ptt_active
             /\ on_push_to_talk_stop)
            => signals' = Append(signals, "stop") /\ ~ptt_active']_vars
  /\ [][\A k \in Keys, r \in {"none", "ptt", "toggle"} :
          OnKeyPress(k, r)
            => Count(signals', "stop") = Count(signals, "stop")]_vars

\* C7 witness: two press/release pairs of the fixed PTT key have produced
\* start, stop, start, stop.
C7_Witness ==
  /\ ~keyChanged
  /\ PttSignals = << "start", "stop", "start", "stop" >>
  /\ ~ptt_active

\* The held keys cover the three roles of the toggle combination.
RolesHeld(held) ==
  /\ held \cap CtrlVariants # {}
  /\ held \cap AltVariants # {}
  /\ "m" \in held

\* C8: the toggle combination is matched by role: it is satisfied exactly
\* by the held-key sets with a control variant, an alt variant and 'm', and a
\* press is answered with a toggle-signal exactly when the held keys then
\* cover the three roles, whichever variants they are.
C8_ComboByRole ==
  /\ [](is_combo_pressed(ToggleCombo, current_keys)
          <=> RolesHeld(current_keys))
  /\ [][\A k \in Keys, r \in {"none", "toggle"} :
          (OnKeyPress(k, r) /\ on_toggle)
            => ( (Count(signals', "toggle") = Count(signals, "toggle") + 1)
                 <=> RolesHeld(current_keys \cup {k}) )]_vars

\* C8 witness: right control, right alt and 'm' are held, no left variant
\* is, and a toggle-signal was emitted.
C8_Witness ==
  /\ {"ctrl_r", "alt_r", "m"} \subseteq current_keys
  /\ current_keys \cap {"ctrl", "ctrl_l", "alt", "alt_l"} = {}
  /\ Count(signals, "toggle") = 1

\* C9: the toggle-signal is edge-triggered: the press that completes the
\* combination emits one toggle-signal, and a press that finds the whole
\* combination already held emits none.
C9_ToggleEdgeTriggered ==
  /\ [][\A k \in Keys, r \in {"none", "toggle"} :
          (OnKeyPress(k, r) /\ on_toggle /\ ~RolesHeld(current_keys)
             /\ RolesHeld(current_keys \cup {k}))
            => Count(signals', "toggle") = Count(signals, "toggle") + 1]_vars
  /\ [][\A k \in Keys, r \in {"none", "ptt", "toggle"} :
          (OnKeyPress(k, r) /\ RolesHeld(current_keys))
            => Count(signals', "toggle") = Count(signals, "toggle")]_vars

\* ------------------------------------------------ controller claims, cont.
\* C10: start_recording during a session changes nothing: no stream is
\* opened, no thread started, buffer, stop flag and the running loop's
\* segment callback stay as they are, and the state stays Recording.
C10_StartWhileRecordingNoop ==
  /\ [][\A cb, ok \in BOOLEAN :
          (is_recording /\ StartRecording(cb, ok))
            => UNCHANGED << objVars, threads, emitted >>]_vars
  /\ [](last = "already_recording" => is_recording)

\* C10 witness: start_recording has returned "already recording" in a
\* session that had recorded a frame.
C10_Witness ==
  /\ last = "already_recording"
  /\ recording_buffer # << >>
  /\ is_recording /\ ~stop_event

\* C11: the calling thread reads the buffer only after the capture thread
\* has terminated, also when the join times out: stop_recording returns the
\* buffer only once the thread has exited, and a capture loop appends a frame
\* only while its own session has not been ended by stop_recording.
C11_BufferHandOff ==
  /\ [][\A timedOut \in BOOLEAN : StopRecordingEnd(timedOut) => Joined]_vars
  /\ [][\A t \in DOMAIN threads :
          ProcessFrame(t, 0) => (is_recording /\ capture_thread = t)]_vars

\* C12: stop_recording always returns: a call in a session sets the stop
\* flag, the join never keeps the caller for good, and the call then ends
\* with the stream closed and the session Idle, whether or not the capture
\* thread has exited.
C12_StopAlwaysReturns ==
  /\ [][(StopRecordingBegin /\ is_recording) => stop_event']_vars
  /\ [](ctl = "joining" => ENABLED CtlStopEnd)
  /\ (ctl = "joining")
       ~> (ctl = "idle" /\ last = "stopped" /\ ~is_recording /\ stream = 0)

\* C12 witness: stop_recording has returned while the capture thread of the
\* session it ended is still inside a frame read.
C12_Witness ==
  /\ last = "stopped"
  /\ ~is_recording /\ stream = 0
  /\ capture_thread # 0
  /\ threads[capture_thread].pc = "read"

\* The frames of the reads of thread t that returned one and were processed.
FramesSeen(t) == [k \in 1..Len(Seen(t)) |-> Seen(t)[k].f]

\* C13: a failing frame read does not end the session: it leaves the object
\* (state Recording included), the loop's speech state and pending segment
\* and the Recording Buffer as they were, the loop is back at its head to
\* read again, it ends only once the stop flag is set, and the buffer goes on
\* holding every frame read, before and after the failure.
C13_ReadErrorAbsorbed ==
  /\ [][\A t \in DOMAIN threads :
          ReadError(t)
            => /\ UNCHANGED << objVars, emitted, delivered >>
               /\ threads' = [threads EXCEPT ![t].pc = "check"]]_vars
  /\ [][\A t \in DOMAIN threads :
          (threads[t].pc # "done" /\ threads'[t].pc = "done")
            => stop_event]_vars
  /\ [](\A t \in DOMAIN threads : recording_buffer = FramesSeen(t))

\* C13 witness: a read failed in the middle of a speech run, and the loop,
\* still Recording, has since added the next frame to the pending segment.
C13_Witness ==
  /\ is_recording /\ ~stop_event
  /\ \E t \in DOMAIN threads :
        /\ threads[t].is_speech
        /\ \E a, b \in DOMAIN threads[t].speech_frames :
              /\ threads[t].speech_frames[a].n <= errAt
              /\ threads[t].speech_frames[b].n > errAt

\* C14: a frame duration the classifier does not support is rejected at
\* construction or by start_recording: no session is ever Recording with it,
\* and no loop iteration ever meets the classifier's refusal.
C14_FrameDurationFailFast ==
  /\ is_recording => chunk_duration_ms \in SupportedFrameDurations
  /\ \A t \in DOMAIN threads : threads[t].pc = "got" => ~VadRaises

\* C17: when the device cannot be opened, start_recording raises to its
\* caller and starts no session: the object and the threads are as before,
\* the state is Idle with no stream held, and the next start_recording whose
\* open succeeds starts a session instead of finding one already recording.
C17_OpenFailureStartsNothing ==
  /\ [][\A cb \in BOOLEAN :
          (~is_recording /\ StartRecording(cb, FALSE))
            => /\ last' = "open_failed"
               /\ UNCHANGED << objVars, threads >>]_vars
  /\ [](last = "open_failed" => (~is_recording /\ stream = 0))
  /\ [][\A cb \in BOOLEAN :
          (last = "open_failed" /\ StartRecording(cb, TRUE))
            => (last' = "started" /\ is_recording')]_vars

\* C17 witness: after a session that recorded a frame was stopped, a
\* start_recording failed to open the device and the controller is Idle.
C17_Witness ==
  /\ last = "open_failed"
  /\ ~is_recording /\ stream = 0
  /\ recording_buffer # << >>

\* C18: in the push-to-talk variant the audio the "end" call returns is
\* exactly the frames delivered between the matching "begin" and "end",
\* whatever their class; a "begin" while active changes nothing, and an "end"
\* while not active changes nothing and returns an empty buffer.
C18_PushToTalkReturnsInterval ==
  /\ [](last = "stopped" => ret = SessionFrames)
  /\ [][\A ok \in BOOLEAN :
          (cap_ptt_active /\ StartPushToTalk(ok))
            => UNCHANGED << objVars, threads, emitted, cap_ptt_active >>]_vars
  /\ [][(~cap_ptt_active /\ StopPushToTalkBegin)
          => /\ ret' = << >>
             /\ UNCHANGED << objVars, threads, emitted, cap_ptt_active >>]_vars

\* The frame an invocation stands at in the stream: the first frame of a
\* Segment, the frame at which a notification was given.
EventFrame(ev) == ev.frames[1].n

\* C19: every Segment emitted is directly preceded by the speech-start
\* notification given at its first frame and directly followed, before
\* anything of a later frame, by one speech-end notification; invocations
\* appear in frame arrival order.
C19_NotificationsBracketSegment ==
  /\ \A e \in DOMAIN emitted :
        (emitted[e].kind = "segment" /\ on_speech_start)
          => /\ e > 1
             /\ emitted[e - 1].kind = "speech_start"
             /\ emitted[e - 1].th = emitted[e].th
             /\ emitted[e - 1].frames = << emitted[e].frames[1] >>
  /\ \A e \in DOMAIN emitted :
        (emitted[e].kind = "segment" /\ on_speech_end)
          => /\ e < Len(emitted)
             /\ emitted[e + 1].kind = "speech_end"
             /\ emitted[e + 1].th = emitted[e].th
  /\ \A e \in DOMAIN emitted :
        (emitted[e].kind = "speech_end" /\ on_speech_end)
          => (e + 1 \in DOMAIN emitted => emitted[e + 1].kind # "speech_end")
  /\ \A e, g \in DOMAIN emitted :
        (e < g /\ emitted[e].th = emitted[g].th)
          => EventFrame(emitted[e]) <= EventFrame(emitted[g])

\* C20: every Segment emitted is a contiguous run of the delivered stream:
\* it holds every frame delivered between its first and its last frame.
C20_SegmentContiguous ==
  \A e \in DOMAIN emitted :
     emitted[e].kind = "segment"
       => \A m \in 1..(Len(emitted[e].frames) - 1) :
             emitted[e].frames[m + 1].n = emitted[e].frames[m].n + 1

\* The capture loops that have not returned.
LiveThreads == { t \in DOMAIN threads : threads[t].pc # "done" }

\* C21: whatever the order of start_recording and stop_recording calls, also
\* after a join that timed out, at most one capture loop of the controller
\* is running, and a loop that reads or appends frames is the one the
\* controller started last.
C21_OneCaptureThread ==
  /\ Cardinality(LiveThreads) <= 1
  /\ \A t \in DOMAIN threads :
        threads[t].pc \in {"read", "got"} => t = capture_thread

\* C22: in the push-to-talk variant, after any sequence of its four calls,
\* the device failing to open or not, ptt_active is set only while a session
\* is recording, and a start_push_to_talk whose open succeeds while no
\* session is recording starts one.
C22_PttActiveImpliesRecording ==
  /\ [](cap_ptt_active => is_recording)
  /\ [][(~is_recording /\ StartPushToTalk(TRUE)) => is_recording']_vars

\* The invocations of the segment callback by thread t.
SegmentEvents(t) ==
  { e \in DOMAIN emitted :
      emitted[e].kind = "segment" /\ emitted[e].th = t }

\* C24: the segment callback is invoked at most once per speech run, also
\* when it or the speech-end handler raises: no two invocations are passed
\* the same frame, and the iteration that invokes a handler at the end of a
\* run leaves the loop in Silence with the pending buffer and the silence
\* counter cleared.
C24_SegmentAtMostOncePerRun ==
  /\ [](\A t \in DOMAIN threads :
          \A e, g \in SegmentEvents(t) :
             e # g => \A a \in DOMAIN emitted[e].frames,
                         b \in DOMAIN emitted[g].frames :
                           emitted[e].frames[a] # emitted[g].frames[b])
  /\ [][\A t \in DOMAIN threads, k \in 0..2 :
          (ProcessFrame(t, k) /\ EndsValidSegment(threads[t], threads[t].chunk))
            => /\ ~threads'[t].is_speech
               /\ threads'[t].speech_frames = << >>
               /\ threads'[t].silence_frames = 0]_vars

\* ------------------------------------------- key tracker claims, cont.
\* The key each recognised string stands for: a named key whatever its
\* case, or the character key of a single printable character.
RecognisedStrings == {"f10", "F10", "Space", "x"}
SelectedKey(str) ==
  CASE str \in {"f10", "F10"} -> "f10"
    [] str = "Space" -> "space"
    [] str = "x" -> "x"

\* The PTT key is still the one the construction gave the tracker.
PttKeyAsConstructed == ~keyChanged /\ update_result = "none"

\* C15: the PTT key can be set from a recognised string: a tracker built
\* with it as its configuration entry exists and has the selected key as its
\* PTT key, and the update operation called with it sets the PTT key to the
\* selected key and returns true.
C15_PttKeyFromString ==
  /\ [](config_key \in RecognisedStrings
          => /\ constructed
             /\ PttKeyAsConstructed => ptt_key = SelectedKey(config_key))
  /\ [][\A str \in RecognisedStrings :
          UpdateHotkeyFromString(str)
            => /\ update_result' = "true"
               /\ ptt_key' = SelectedKey(str)]_vars

\* C16: an unrecognised string is never fatal: a tracker built with it
\* exists and has the default key F9, the update operation called with it
\* raises nothing, reports failure and leaves the PTT key at F9, and the
\* tracker goes on handling key events.
C16_UnrecognisedStringNotFatal ==
  /\ [](config_key \in HotkeyStrings \ RecognisedStrings
          => /\ constructed
             /\ PttKeyAsConstructed => ptt_key = "f9")
  /\ [][\A str \in HotkeyStrings \ RecognisedStrings :
          UpdateHotkeyFromString(str)
            => /\ update_result' = "false"
               /\ ptt_key' = "f9"]_vars
  /\ []((update_result # "none" /\ nKeyEvents < MaxCfgKeyEvents)
          => ENABLED CfgPress)

\* C23: every start-signal is followed by a stop-signal at the release of
\* the key whose press produced it, also when change_ptt_key replaces the PTT
\* key meanwhile: ptt_active is set only while that key is held, and its
\* release emits the stop-signal.
C23_StopAtReleaseOfActivator ==
  /\ [](ptt_active => activator # NoKey)
  /\ [][\A k \in Keys, r \in BOOLEAN :
          (OnKeyRelease(k, r) /\ k = activator /\ on_push_to_talk_stop)
            => (signals' = Append(signals, "stop") /\ ~ptt_active')]_vars

====
